---- MODULE Spec2Model ----
(***************************************************************************)
(* Model of mm.c: a segregated-free-list allocator with boundary tags.     *)
(*                                                                         *)
(* The heap is modelled word by word (4-byte words), exactly as the code   *)
(* reads and writes it through GET/PUT: headers, footers and the 8-byte    *)
(* successor link of a free block are cells of mem.  Addresses are byte    *)
(* addresses; mem[(p - HeapBase) \div WSIZE] is the word at address p.     *)
(* size_t is modelled as an unsigned integer of SizeBits bits.             *)
(***************************************************************************)
EXTENDS Integers, Sequences, FiniteSets, TLC

VARIABLES
  mem,         \* the heap words, a function 0..(mem_brk-HeapBase)/WSIZE-1 -> Int
  mem_brk,     \* the provider's current break (one past the last heap byte)
  mem_max,     \* the provider's limit: the break never passes it
  heap_listp,  \* static char *heap_listp
  freelists,   \* static char *freelists[NUMLIST]
  phase,       \* "uninit", "ready", "initfailed", "segv", "corrupt", "undefined"
  live,        \* pointers handed to the caller and not yet released
  calls,       \* number of steps the caller has taken since mm_init
  last,        \* the last public call: its arguments, result and provider answer
  hist,        \* mm_init and the calls made since by a caller that keeps a record
  out          \* what the last run of mm_checkheap printed

vars == <<mem, mem_brk, mem_max, heap_listp, freelists, phase, live, calls, last, hist,
          out>>

(***************************** program constants ***************************)
WSIZE == 4
DSIZE == 8
NUMLIST == 25
MINSIZE == 16
CHUNKSIZE == 256
ALIGNMENT == 8
NULL == 0

(******************************* model bounds ******************************)
SizeBits == 12      \* width of size_t in the model
MaxChunks == 3      \* the provider supplies at most 16 + MaxChunks*CHUNKSIZE bytes
MaxLive == 2        \* the caller holds at most this many live pointers
MaxCalls == 4       \* the caller takes at most this many steps after mm_init
DeepCalls == 6      \* the same bounds, for the caller of small blocks
DeepLive == 3
ScenarioCalls == 5  \* the same bounds, for the caller of the allocate/release scenarios
ScenarioLive == 2
CheckCalls == 5     \* the same bounds, for the caller of mm_checkheap
CheckLive == 2
WalkBlocks == 3     \* blocks the walk of mm_checkheap over block sizes meets

SIZE_MOD == 2 ^ SizeBits
SIZE_MAX == SIZE_MOD - 1

(* Heap provider (memlib): base address, capacity and failure value.       *)
HeapBase == 1024
MaxHeap == 4 * WSIZE + MaxChunks * CHUNKSIZE
SBRK_FAIL == 0 - 1

(* Capacities the provider may have: too small for the first request of   *)
(* mm_init, too small for its second, and MaxHeap.                         *)
Capacities == {DSIZE, 4 * WSIZE + CHUNKSIZE \div 2, MaxHeap}

(* Values a word of fresh (never written) heap memory may hold. *)
FillVals == {1431655765}
(* The word the caller stores into its payloads. *)
UserWords == {286331153}

MAX(x, y) == IF x > y THEN x ELSE y
MIN(x, y) == IF x < y THEN x ELSE y

(* (size) | (alloc), for alloc in {0, 1} *)
PACK(size, alloc) == IF size % 2 = 1 THEN size ELSE size + alloc

(* The allocator's globals and the heap together, threaded through the     *)
(* helper routines: s.mem, s.brk, s.max, s.hlp (heap_listp), s.fl           *)
(* (freelists).                                                            *)
Idx(p) == (p - HeapBase) \div WSIZE

GET(s, p) == s.mem[Idx(p)]
PUT(s, p, val) == [s EXCEPT !.mem[Idx(p)] = val]

GET_SIZE(s, p) == GET(s, p) - (GET(s, p) % 8)
GET_ALLOC(s, p) == GET(s, p) % 2

HDRP(bp) == bp - WSIZE
FTRP(s, bp) == bp + GET_SIZE(s, HDRP(bp)) - DSIZE

(* SUCC(bp) is an 8-byte pointer stored at bp: two words, low word first.  *)
(* Every address of the model fits the low word; the high word is 0.       *)
SUCC(s, bp) == IF GET(s, bp + WSIZE) = 0 THEN GET(s, bp) ELSE SBRK_FAIL
SetSUCC(s, bp, p) == PUT(PUT(s, bp, p), bp + WSIZE, 0)

NEXT_BLKP(s, bp) == bp + GET_SIZE(s, bp - WSIZE)
PREV_BLKP(s, bp) == bp - GET_SIZE(s, bp - DSIZE)

(* rounds up to the nearest multiple of ALIGNMENT, in size_t arithmetic *)
ALIGN(p) ==
  LET q == (p + (ALIGNMENT - 1)) % SIZE_MOD
  IN  q - (q % 8)

(* mem_sbrk: the provider refuses to move the break past its limit.  Fresh *)
(* bytes hold the word fill.                                               *)
mem_sbrk(s, incr, fill) ==
  IF s.brk + incr > s.max
  THEN [s |-> s, p |-> SBRK_FAIL]
  ELSE LET n == Idx(s.brk + incr)
           o == Idx(s.brk)
       IN  [s |-> [s EXCEPT !.brk = s.brk + incr,
                            !.mem = [i \in 0..(n - 1) |->
                                       IF i < o THEN s.mem[i] ELSE fill]],
            p |-> s.brk]

(* for (i = 0; size > (unsigned int) 1<<i; i++) {}  i = MIN(i, NUMLIST - 1) *)
RECURSIVE ClassLoop(_, _)
ClassLoop(size, i) == IF size > 2 ^ i THEN ClassLoop(size, i + 1) ELSE i

ListIndex(size) == MIN(ClassLoop(size, 0), NUMLIST - 1)

freelist_insert_nolink(s, bp) ==
  [s EXCEPT !.fl[ListIndex(GET_SIZE(s, HDRP(bp)))] = bp]

freelist_insert(s, bp) ==
  LET size == GET_SIZE(s, HDRP(bp))
      i == ListIndex(size)
      s1 == SetSUCC(s, bp, s.fl[i])
  IN  [s1 EXCEPT !.fl[i] = bp]

(* while (SUCC(prevptr) != bp) prevptr = SUCC(prevptr); *)
RECURSIVE FindPrev(_, _, _)
FindPrev(s, prevptr, bp) ==
  IF SUCC(s, prevptr) # bp THEN FindPrev(s, SUCC(s, prevptr), bp) ELSE prevptr

freelist_remove_headonly(s, bp) ==
  LET i == ListIndex(GET_SIZE(s, HDRP(bp)))
  IN  [s EXCEPT !.fl[i] = s.hlp]

freelist_remove(s, bp) ==
  LET succ_alloc == GET_ALLOC(s, HDRP(SUCC(s, bp)))
      size == GET_SIZE(s, HDRP(bp))
      i == ListIndex(size)
  IN  IF bp = s.fl[i] /\ succ_alloc # 0
      THEN [s EXCEPT !.fl[i] = s.hlp]
      ELSE IF bp = s.fl[i] /\ succ_alloc = 0
      THEN [s EXCEPT !.fl[i] = SUCC(s, bp)]
      ELSE LET prevptr == FindPrev(s, s.fl[i], bp)
           IN  SetSUCC(s, prevptr, SUCC(s, bp))

(* PUT(FTRP(bp), val), PUT(HDRP(NEXT_BLKP(bp)), val), ...: the address is  *)
(* computed in the heap the word is stored into.                           *)
PUT_FTRP(s, bp, val) == PUT(s, FTRP(s, bp), val)
PUT_HDRP_NEXT(s, bp, val) == PUT(s, HDRP(NEXT_BLKP(s, bp)), val)
PUT_HDRP_PREV(s, bp, val) == PUT(s, HDRP(PREV_BLKP(s, bp)), val)
PUT_FTRP_NEXT(s, bp, val) == PUT(s, FTRP(s, NEXT_BLKP(s, bp)), val)

(* freelist_remove(NEXT_BLKP(bp)); freelist_remove(PREV_BLKP(bp)); *)
remove_next(s, bp) == freelist_remove(s, NEXT_BLKP(s, bp))
remove_prev(s, bp) == freelist_remove(s, PREV_BLKP(s, bp))

(* bp = PREV_BLKP(bp); freelist_insert(bp); return bp; *)
insert_prev(s, bp) ==
  [s |-> freelist_insert(s, PREV_BLKP(s, bp)), bp |-> PREV_BLKP(s, bp)]

(* coalesce, bp has a free block to the right: what follows the removal *)
coalesce_next(s, bp, size) ==
  LET size2 == size + GET_SIZE(s, HDRP(NEXT_BLKP(s, bp)))
  IN  [s |-> freelist_insert(PUT_FTRP(PUT(s, HDRP(bp), PACK(size2, 0)),
                                      bp, PACK(size2, 0)), bp),
       bp |-> bp]

(* coalesce, bp has a free block to the left: what follows the removal *)
coalesce_prev(s, bp, size) ==
  LET size2 == size + GET_SIZE(s, HDRP(PREV_BLKP(s, bp)))
  IN  insert_prev(PUT_HDRP_PREV(PUT_FTRP(s, bp, PACK(size2, 0)),
                                bp, PACK(size2, 0)), bp)

(* coalesce, bp has free blocks on both sides: what follows the removals *)
coalesce_both(s, bp, size) ==
  LET size2 == size + GET_SIZE(s, HDRP(PREV_BLKP(s, bp)))
                    + GET_SIZE(s, FTRP(s, NEXT_BLKP(s, bp)))
  IN  insert_prev(PUT_FTRP_NEXT(PUT_HDRP_PREV(s, bp, PACK(size2, 0)),
                                bp, PACK(size2, 0)), bp)

coalesce_nomerge(s, bp) == [s |-> freelist_insert(s, bp), bp |-> bp]

(* coalesce: the new state and the block the merged block starts at *)
coalesce(s, bp) ==
  LET prev_alloc == GET_ALLOC(s, FTRP(s, PREV_BLKP(s, bp)))
      next_alloc == GET_ALLOC(s, HDRP(NEXT_BLKP(s, bp)))
      size == GET_SIZE(s, HDRP(bp))
  IN  IF prev_alloc # 0 /\ next_alloc # 0
      THEN [s |-> freelist_insert(s, bp), bp |-> bp]
      ELSE IF prev_alloc # 0 /\ next_alloc = 0
      THEN coalesce_next(remove_next(s, bp), bp, size)
      ELSE IF prev_alloc = 0 /\ next_alloc # 0
      THEN coalesce_prev(remove_prev(s, bp), bp, size)
      ELSE coalesce_both(remove_prev(remove_next(s, bp), bp), bp, size)

(* extend_heap: the new state and the block, NULL when the provider refuses *)
extend_heap(s, words, fill) ==
  LET size == IF words % 2 = 1 THEN (words + 1) * WSIZE ELSE words * WSIZE
      r == mem_sbrk(s, size, fill)
  IN  IF r.p = SBRK_FAIL
      THEN [s |-> s, bp |-> NULL]
      ELSE coalesce(PUT_HDRP_NEXT(PUT_FTRP(PUT(r.s, HDRP(r.p), PACK(size, 0)),
                                           r.p, PACK(size, 0)),
                                  r.p, PACK(0, 1)),
                    r.p)

(* PUT(HDRP(bp), PACK(size, alloc)); PUT(FTRP(bp), PACK(size, alloc)); *)
put_tags(s, bp, size, alloc) ==
  PUT_FTRP(PUT(s, HDRP(bp), PACK(size, alloc)), bp, PACK(size, alloc))

(* place, the split: the remainder at bp becomes a free block *)
place_remainder(s, bp, rsize) == coalesce(put_tags(s, bp, rsize, 0), bp).s

(* place, the split: bp = NEXT_BLKP(bp) after the block is marked *)
place_split(s, bp, rsize) == place_remainder(s, NEXT_BLKP(s, bp), rsize)

place_nomark(s, bp, asize) == freelist_remove(s, bp)

place_nosplit(s, bp, asize) ==
  put_tags(freelist_remove(s, bp), bp, GET_SIZE(s, HDRP(bp)), 1)

place(s, bp, asize) ==
  LET csize == GET_SIZE(s, HDRP(bp))
  IN  IF (csize - asize) % SIZE_MOD >= MINSIZE
      THEN place_split(put_tags(freelist_remove(s, bp), bp, asize, 1),
                       bp, csize - asize)
      ELSE put_tags(freelist_remove(s, bp), bp, csize, 1)

ScanList_headonly(s, bp, asize) ==
  IF GET_ALLOC(s, HDRP(bp)) # 0 THEN NULL
  ELSE IF asize <= GET_SIZE(s, HDRP(bp)) THEN bp
  ELSE NULL

(* while (!GET_ALLOC(HDRP(bp))) { if (asize <= GET_SIZE(HDRP(bp))) return bp; ... } *)
RECURSIVE ScanList(_, _, _)
ScanList(s, bp, asize) ==
  IF GET_ALLOC(s, HDRP(bp)) # 0 THEN NULL
  ELSE IF asize <= GET_SIZE(s, HDRP(bp)) THEN bp
  ELSE ScanList(s, SUCC(s, bp), asize)

(* the bucket loop of find_fit, from bucket i, once ScanList has returned bp *)
RECURSIVE FitFrom(_, _, _)
FitNext(s, asize, i, bp) == IF bp # NULL THEN bp ELSE FitFrom(s, asize, i + 1)

FitFrom(s, asize, i) ==
  IF i >= NUMLIST THEN NULL
  ELSE IF asize <= 2 ^ i
       THEN FitNext(s, asize, i, ScanList(s, s.fl[i], asize))
       ELSE FitFrom(s, asize, i + 1)

find_fit_lastonly(s, asize) == ScanList(s, s.fl[NUMLIST - 1], asize)

find_fit(s, asize) ==
  IF asize > 2 ^ (NUMLIST - 1)
  THEN ScanList(s, s.fl[NUMLIST - 1], asize)
  ELSE FitFrom(s, asize, 0)

(* size = MAX(ALIGN(size + DSIZE), MINSIZE), in size_t arithmetic *)
AdjustedSize(n) == MAX(ALIGN((n + DSIZE) % SIZE_MOD), MINSIZE)

(* malloc, no fit found: e is what extend_heap returned *)
malloc_extended(s, e, size) ==
  IF e.bp = NULL
  THEN [s |-> s, ret |-> NULL, asked |-> TRUE, refused |-> TRUE]
  ELSE [s |-> place(e.s, e.bp, size), ret |-> e.bp, asked |-> TRUE, refused |-> FALSE]

malloc_fit_grow(s, bp, size, fill) ==
  malloc_extended(s, extend_heap(s, MAX(size, CHUNKSIZE) \div WSIZE, fill), size)

(* malloc, with the adjusted size: bp is what find_fit returned *)
malloc_fit(s, bp, size, fill) ==
  IF bp # NULL
  THEN [s |-> place(s, bp, size), ret |-> bp, asked |-> FALSE, refused |-> FALSE]
  ELSE malloc_extended(s, extend_heap(s, MAX(size, CHUNKSIZE) \div WSIZE, fill), size)

(* malloc: the new state, the result, and whether the provider was asked   *)
(* to grow the heap (asked) and refused (refused).                         *)
malloc(s, n, fill) ==
  malloc_fit(s, find_fit(s, AdjustedSize(n)), AdjustedSize(n), fill)

free_nocoalesce(s, ptr) ==
  IF ptr = 0 THEN s
  ELSE freelist_insert(put_tags(s, ptr, GET_SIZE(s, HDRP(ptr)), 0), ptr)

free(s, ptr) ==
  IF ptr = 0 THEN s
  ELSE coalesce(put_tags(s, ptr, GET_SIZE(s, HDRP(ptr)), 0), ptr).s

(* mm_init, once the first four words are in place: e is what extend_heap *)
(* returned                                                                *)
mm_init_extended(s, e) ==
  IF e.bp = NULL THEN [s |-> s, ret |-> 0 - 1] ELSE [s |-> e.s, ret |-> 0]

(* mm_init, once mem_sbrk has returned h in the heap s *)
mm_init_heap(s, h) ==
  LET s1 == PUT(s, h, 0)
      s2 == PUT(s1, h + (1 * WSIZE), PACK(DSIZE, 1))
      s3 == PUT(s2, h + (2 * WSIZE), PACK(DSIZE, 1))
      s4 == PUT(s3, h + (3 * WSIZE), PACK(0, 1))
      s5 == [s4 EXCEPT !.hlp = h + (2 * WSIZE),
                       !.fl = [i \in 0..(NUMLIST - 1) |-> h + (2 * WSIZE)]]
  IN  s5

mm_init_lists(s, fill) ==
  mm_init_extended(s, extend_heap(s, CHUNKSIZE \div WSIZE, fill))

(* mm_init: the new state and the result (0, or -1 on error) *)
mm_init(s, fill) ==
  LET r == mem_sbrk(s, 4 * WSIZE, fill)
  IN  IF r.p = SBRK_FAIL
      THEN [s |-> [s EXCEPT !.hlp = SBRK_FAIL], ret |-> 0 - 1]
      ELSE mm_init_lists(mm_init_heap(r.s, r.p), fill)

(* memcpy(dst, src, n), word by word; the last n % 4 bytes are the low     *)
(* bytes of their word (little-endian).  The library copies by ascending   *)
(* addresses (asc) or by descending ones; the two differ only when the     *)
(* ranges overlap.  A write past the heap's end leaves the modelled heap   *)
(* alone.  CopiedWord is the word that ends up at dst + k*WSIZE.           *)
RECURSIVE CopiedWord(_, _, _, _, _, _)
CopiedWord(s, dst, src, n, asc, k) ==
  LET nw == (n + WSIZE - 1) \div WSIZE
      j == k + ((src - dst) \div WSIZE)
      r == n - k * WSIZE
      lo == 256 ^ r
      d == GET(s, dst + k * WSIZE)
      already == /\ 0 <= j /\ j < nw
                 /\ dst + j * WSIZE < s.brk
                 /\ IF asc THEN j < k ELSE j > k
      w == IF already THEN CopiedWord(s, dst, src, n, asc, j)
           ELSE GET(s, src + k * WSIZE)
  IN  IF r >= WSIZE THEN w ELSE (w % lo) + (d - (d % lo))

memcpy(s, dst, src, n, asc) ==
  LET nw == (n + WSIZE - 1) \div WSIZE
      first == Idx(dst)
  IN  [s EXCEPT !.mem = [i \in DOMAIN s.mem |->
                           IF first <= i /\ i < first + nw
                           THEN CopiedWord(s, dst, src, n, asc, i - first)
                           ELSE s.mem[i]]]

Overlap(dst, src, n) == (dst < src + n) /\ (src < dst + n)

(* Whether free(ptr) on the heap s stays inside the heap and inside the    *)
(* free lists: s may have been damaged by a copy that overran its block.   *)
InHeapWord(s, p) == p >= HeapBase /\ p + WSIZE <= s.brk /\ p % WSIZE = 0

SaneSize(s, sz) == sz >= DSIZE /\ sz % 8 = 0 /\ sz <= s.brk - HeapBase

RECURSIVE ListHas(_, _, _, _)
ListHas(s, p, bp, fuel) ==
  /\ fuel > 0
  /\ InHeapWord(s, p - WSIZE) /\ InHeapWord(s, p + WSIZE)
  /\ \/ p = bp
     \/ /\ GET(s, p + WSIZE) = 0
        /\ ListHas(s, GET(s, p), bp, fuel - 1)

Removable(s, bp) ==
  /\ InHeapWord(s, HDRP(bp)) /\ InHeapWord(s, bp + WSIZE)
  /\ SaneSize(s, GET_SIZE(s, HDRP(bp)))
  /\ InHeapWord(s, bp + GET_SIZE(s, HDRP(bp)) - WSIZE)
  /\ GET(s, bp + WSIZE) = 0
  /\ InHeapWord(s, HDRP(GET(s, bp)))
  /\ ListHas(s, s.fl[ListIndex(GET_SIZE(s, HDRP(bp)))], bp, Idx(s.brk))

FreedNeighboursRemovable(s, ptr) ==
  /\ GET_ALLOC(s, HDRP(NEXT_BLKP(s, ptr))) = 0 => Removable(s, NEXT_BLKP(s, ptr))
  /\ GET_ALLOC(s, FTRP(s, PREV_BLKP(s, ptr))) = 0 => Removable(s, PREV_BLKP(s, ptr))

FreeDefined(s, ptr) ==
  /\ InHeapWord(s, HDRP(ptr))
  /\ GET_SIZE(s, HDRP(ptr)) >= MINSIZE
  /\ SaneSize(s, GET_SIZE(s, HDRP(ptr)))
  /\ InHeapWord(s, ptr + GET_SIZE(s, HDRP(ptr)) - WSIZE)
  /\ SaneSize(s, GET_SIZE(s, ptr - DSIZE))
  /\ InHeapWord(s, HDRP(PREV_BLKP(s, ptr)))
  /\ SaneSize(s, GET_SIZE(s, HDRP(PREV_BLKP(s, ptr))))
  /\ InHeapWord(s, FTRP(s, PREV_BLKP(s, ptr)))
  /\ FreedNeighboursRemovable(put_tags(s, ptr, GET_SIZE(s, HDRP(ptr)), 0), ptr)

(* realloc, both arguments non-null: m is what malloc(size) returned in  *)
(* the heap s.  overrun tells that the copy wrote past the new block's   *)
(* payload, defined that the final free(oldptr) could be followed (it      *)
(* always can when there was no overrun).                                  *)
realloc_copied(m, c, oldptr, over) ==
  IF over /\ ~FreeDefined(c, oldptr)
  THEN [s |-> c, ret |-> m.ret, asked |-> m.asked, refused |-> m.refused,
        overrun |-> TRUE, defined |-> FALSE]
  ELSE [s |-> free(c, oldptr), ret |-> m.ret, asked |-> m.asked,
        refused |-> m.refused, overrun |-> over, defined |-> TRUE]

realloc_move_freefirst(s, m, oldptr, size, asc) ==
  [s |-> free(s, oldptr), ret |-> m.ret, asked |-> m.asked, refused |-> m.refused,
   overrun |-> FALSE, defined |-> TRUE]

realloc_move(s, m, oldptr, size, asc) ==
  LET oldsize == MIN(GET_SIZE(m.s, HDRP(oldptr)), size)
  IN  IF m.ret = NULL
      THEN [s |-> s, ret |-> 0, asked |-> m.asked, refused |-> m.refused,
            overrun |-> FALSE, defined |-> TRUE]
      ELSE realloc_copied(m, memcpy(m.s, m.ret, oldptr, oldsize, asc), oldptr,
                          oldsize > GET_SIZE(m.s, HDRP(m.ret)) - DSIZE)

(* realloc, oldptr = NULL: m is what malloc(size) returned *)
realloc_null(m) ==
  [s |-> m.s, ret |-> m.ret, asked |-> m.asked, refused |-> m.refused,
   overrun |-> FALSE, defined |-> TRUE]

realloc_nofree(s, oldptr, size, fill, asc) ==
  IF size = 0
  THEN [s |-> s, ret |-> 0, asked |-> FALSE, refused |-> FALSE,
        overrun |-> FALSE, defined |-> TRUE]
  ELSE realloc_null(malloc(s, size, fill))

(* realloc: the new state and the result *)
realloc(s, oldptr, size, fill, asc) ==
  IF size = 0
  THEN [s |-> free(s, oldptr), ret |-> 0, asked |-> FALSE, refused |-> FALSE,
        overrun |-> FALSE, defined |-> TRUE]
  ELSE IF oldptr = NULL
  THEN realloc_null(malloc(s, size, fill))
  ELSE realloc_move(s, malloc(s, size, fill), oldptr, size, asc)

(* for (i = 0; i < payload_size; i = i + WSIZE) PUT(bp + i, val); *)
FillWords(s, bp, payload_size, val) ==
  [s EXCEPT !.mem = [i \in DOMAIN s.mem |->
                       IF /\ Idx(bp) <= i
                          /\ (i - Idx(bp)) * WSIZE < payload_size
                       THEN val ELSE s.mem[i]]]

calloc_nozero(m) ==
  [s |-> m.s, ret |-> m.ret, asked |-> m.asked, refused |-> m.refused,
   nullread |-> m.ret = NULL]

(* calloc, after the call of malloc, whose result m is used unchecked;     *)
(* nullread tells that the header of the null pointer was read (bp = NULL) *)
calloc_zero(m) ==
  IF m.ret = NULL
  THEN [s |-> m.s, ret |-> m.ret, asked |-> m.asked, refused |-> m.refused,
        nullread |-> TRUE]
  ELSE [s |-> FillWords(m.s, m.ret, GET_SIZE(m.s, HDRP(m.ret)) - DSIZE, 0),
        ret |-> m.ret, asked |-> m.asked, refused |-> m.refused, nullread |-> FALSE]

calloc(s, nmemb, size, fill) == calloc_zero(malloc(s, (nmemb * size) % SIZE_MOD, fill))

(******************************* mm_checkheap *****************************)
in_heap(s, p) == p <= s.brk - 1 /\ p >= HeapBase

aligned(p) == ALIGN(p) = p

(* The diagnostics of mm_checkheap; its progress lines are not recorded.   *)
MALFORMED == "Prologue block is malformed"
NOTFOUND == "Couldn't find element of free list in heap"
OUTSIDE == "A block in free list is outside of heap"
MISMATCH == "Header and footer mismatch"
TOOSMALL == "Block size is too small"
NOTALIGNED == "Block is not aligned"
NOTLISTED == "Unallocated block is not in free list"

(* How a run of mm_checkheap ends: it returns, it calls exit, it loops     *)
(* for ever, or it reads a word outside the heap.                          *)
Ends(msgs, end) == [msgs |-> msgs, end |-> end]

PrologueMalformed(s) ==
  \/ GET_ALLOC(s, HDRP(s.hlp)) = 0
  \/ GET_SIZE(s, HDRP(s.hlp)) # DSIZE
  \/ GET(s, HDRP(s.hlp)) # GET(s, FTRP(s, s.hlp))

check_prologue(s) == IF PrologueMalformed(s) THEN <<MALFORMED>> ELSE <<>>

(* while (curfree != curptr) { if (!in_heap(curptr)) exit; curptr = NEXT_BLKP } *)
(* A block of size 0 is its own next block: the loop never ends.           *)
RECURSIVE find_in_heap(_, _, _)
find_in_heap(s, curfree, curptr) ==
  IF curfree = curptr THEN "found"
  ELSE IF ~in_heap(s, curptr) THEN "exit"
  ELSE IF ~InHeapWord(s, HDRP(curptr)) THEN "stray"
  ELSE IF GET_SIZE(s, HDRP(curptr)) = 0 THEN "loop"
  ELSE find_in_heap(s, curfree, NEXT_BLKP(s, curptr))

outside_heap(s, curfree, msgs) ==
  IF in_heap(s, curfree) THEN msgs ELSE Append(msgs, OUTSIDE)

(* while (!GET_ALLOC(HDRP(curfree))) { ...; curfree = SUCC(curfree); }      *)
(* seen: the entries the loop has visited; meeting one again, it never     *)
(* ends.                                                                   *)
RECURSIVE check_list(_, _, _, _)
check_entry(s, curfree, msgs, seen, found) ==
  IF found = "exit" THEN Ends(Append(msgs, NOTFOUND), "exit")
  ELSE IF found # "found" THEN Ends(msgs, found)
  ELSE IF ~InHeapWord(s, curfree + WSIZE) THEN Ends(outside_heap(s, curfree, msgs), "stray")
  ELSE check_list(s, SUCC(s, curfree), outside_heap(s, curfree, msgs),
                  seen \cup {curfree})

check_list(s, curfree, msgs, seen) ==
  IF curfree \in seen THEN Ends(msgs, "loop")
  ELSE IF ~InHeapWord(s, HDRP(curfree)) THEN Ends(msgs, "stray")
  ELSE IF GET_ALLOC(s, HDRP(curfree)) # 0 THEN Ends(msgs, "return")
  ELSE check_entry(s, curfree, msgs, seen, find_in_heap(s, curfree, s.hlp + DSIZE))

(* for (int i = 0; i < NUMLIST; i++) { first_free = freelists[i]; ... } *)
RECURSIVE check_lists(_, _, _)
check_lists_next(s, i, r) ==
  IF r.end # "return" THEN r ELSE check_lists(s, i + 1, r.msgs)

check_lists(s, i, msgs) ==
  IF i = NUMLIST THEN Ends(msgs, "return")
  ELSE check_lists_next(s, i, check_list(s, s.fl[i], msgs, {}))

(* for (i = 0; i < NUMLIST; i++) if (size <= 1<<i) { first_free =          *)
(* freelists[i]; break; }: when no i fits, first_free keeps the list it    *)
(* had.  The lists are named by their index.                               *)
checked_list(size, first_free) ==
  IF size <= 2 ^ (NUMLIST - 1) THEN ClassLoop(size, 0) ELSE first_free

(* while (curptr != curfree) { if (GET_ALLOC(HDRP(curfree))) exit;          *)
(* curfree = SUCC(curfree); }                                              *)
RECURSIVE find_in_list(_, _, _, _)
find_in_list(s, curptr, curfree, seen) ==
  IF curptr = curfree THEN "found"
  ELSE IF curfree \in seen THEN "loop"
  ELSE IF ~InHeapWord(s, HDRP(curfree)) THEN "stray"
  ELSE IF GET_ALLOC(s, HDRP(curfree)) # 0 THEN "exit"
  ELSE IF ~InHeapWord(s, curfree + WSIZE) THEN "stray"
  ELSE find_in_list(s, curptr, SUCC(s, curfree), seen \cup {curfree})

check_listed(s, curptr, first_free) ==
  IF GET_ALLOC(s, HDRP(curptr)) # 0 THEN "found"
  ELSE find_in_list(s, curptr, s.fl[first_free], {})

(* while (in_heap(curptr)) { ...; curptr = NEXT_BLKP(curptr); } *)
RECURSIVE check_blocks(_, _, _, _)
check_block(s, curptr, first_free, msgs, listed) ==
  IF listed = "exit" THEN Ends(Append(msgs, NOTLISTED), "exit")
  ELSE IF listed # "found" THEN Ends(msgs, listed)
  ELSE check_blocks(s, NEXT_BLKP(s, curptr), first_free, msgs)

check_blocks(s, curptr, first_free, msgs) ==
  IF ~in_heap(s, curptr) THEN Ends(msgs, "return")
  ELSE IF ~InHeapWord(s, HDRP(curptr)) \/ ~InHeapWord(s, FTRP(s, curptr))
    THEN Ends(msgs, "stray")
  ELSE IF GET(s, HDRP(curptr)) # GET(s, FTRP(s, curptr))
    THEN Ends(Append(msgs, MISMATCH), "exit")
  ELSE IF GET_SIZE(s, HDRP(curptr)) < MINSIZE
    THEN Ends(Append(msgs, TOOSMALL), "exit")
  ELSE IF ~aligned(curptr) THEN Ends(Append(msgs, NOTALIGNED), "exit")
  ELSE check_block(s, curptr, checked_list(GET_SIZE(s, HDRP(curptr)), first_free), msgs,
                   check_listed(s, curptr,
                                checked_list(GET_SIZE(s, HDRP(curptr)), first_free)))

check_heap(s, r) ==
  IF r.end # "return" THEN r
  ELSE check_blocks(s, s.hlp + DSIZE, NUMLIST - 1, r.msgs)

mm_checkheap(s) == check_heap(s, check_lists(s, 0, check_prologue(s)))

(******************************** the state machine ************************)
St == [mem |-> mem, brk |-> mem_brk, max |-> mem_max, hlp |-> heap_listp,
       fl |-> freelists]

SetSt(s) ==
  /\ mem' = s.mem
  /\ mem_brk' = s.brk
  /\ mem_max' = s.max
  /\ heap_listp' = s.hlp
  /\ freelists' = s.fl

Call(op, ptr, nmemb, size, ret, asked, refused, nullread) ==
  [op |-> op, ptr |-> ptr, nmemb |-> nmemb, size |-> size, ret |-> ret,
   asked |-> asked, refused |-> refused, nullread |-> nullread]

(* Request sizes the caller passes to malloc and to realloc. *)
ReqSizes == {0, 100, 300, SIZE_MAX}
ReallocSizes == {0, 300, SIZE_MAX}
SmallSizes == {0, 16}
ScenarioSizes == {16, 32, 50, 100, 200, 300}

Init ==
  /\ mem = <<>>
  /\ mem_brk = HeapBase
  /\ mem_max \in {HeapBase + c : c \in Capacities}
  /\ heap_listp = NULL
  /\ freelists = [i \in 0..(NUMLIST - 1) |-> NULL]
  /\ phase = "uninit"
  /\ live = {}
  /\ calls = 0
  /\ last = Call("none", NULL, 0, 0, NULL, FALSE, FALSE, FALSE)
  /\ hist = <<>>
  /\ out = <<>>

MmInit ==
  /\ phase = "uninit"
  /\ \E fill \in FillVals :
       \E r \in {mm_init([St EXCEPT !.mem = [i \in {} |-> 0]], fill)} :
           /\ SetSt(r.s)
           /\ phase' = IF r.ret = 0 THEN "ready" ELSE "initfailed"
           /\ last' = Call("mm_init", NULL, 0, 0, r.ret, TRUE, r.ret # 0, FALSE)
           /\ hist' = Append(hist, last')
  /\ UNCHANGED <<live, calls, out>>

(* The public calls, for a caller that passes sizes from a given set,     *)
(* takes at most maxCalls steps and holds at most maxLive pointers.        *)
MallocOf(sizes, maxCalls, maxLive, keep) ==
  /\ phase = "ready"
  /\ calls < maxCalls
  /\ calls' = calls + 1
  /\ Cardinality(live) < maxLive
  /\ \E n \in sizes, fill \in FillVals :
       \E r \in {malloc(St, n, fill)} :
           /\ SetSt(r.s)
           /\ live' = IF r.ret = NULL THEN live ELSE live \cup {r.ret}
           /\ last' = Call("malloc", NULL, 0, n, r.ret, r.asked, r.refused, FALSE)
           /\ hist' = IF keep THEN Append(hist, last') ELSE hist
  /\ UNCHANGED <<phase, out>>

FreeOf(ptrs, maxCalls, keep) ==
  /\ phase = "ready"
  /\ calls < maxCalls
  /\ calls' = calls + 1
  /\ \E ptr \in ptrs :
       /\ SetSt(free(St, ptr))
       /\ live' = live \ {ptr}
       /\ last' = Call("free", ptr, 0, 0, NULL, FALSE, FALSE, FALSE)
       /\ hist' = IF keep THEN Append(hist, last') ELSE hist
  /\ UNCHANGED <<phase, out>>

(* The library may copy by ascending or by descending addresses. *)
ReallocOf(ptrs, sizes, maxCalls, maxLive) ==
  /\ phase = "ready"
  /\ calls < maxCalls
  /\ calls' = calls + 1
  /\ UNCHANGED <<hist, out>>
  /\ \E oldptr \in ptrs, n \in sizes :
       /\ (oldptr = NULL /\ n # 0) => Cardinality(live) < maxLive
       /\ \E fill \in FillVals, asc \in BOOLEAN :
            \E r \in {realloc(St, oldptr, n, fill, asc)} :
                /\ SetSt(r.s)
                /\ phase' = IF ~r.defined THEN "undefined"
                            ELSE IF r.overrun THEN "corrupt" ELSE "ready"
                /\ live' = IF n = 0 THEN live \ {oldptr}
                           ELSE IF r.ret = NULL THEN live
                           ELSE (live \ {oldptr}) \cup {r.ret}
                /\ last' = Call("realloc", oldptr, 0, n, r.ret, r.asked, r.refused, FALSE)

(* Argument pairs the caller passes to calloc. *)
CallocArgs == {<<2, 8>>, <<1, 300>>, <<SIZE_MOD \div 2, 2>>, <<1, SIZE_MAX>>}

(* What reading the header of the null pointer can do: the process dies   *)
(* ("segv"), or the read yields a word whose size field leaves nothing to *)
(* zero and calloc returns the null pointer ("small").                    *)
NullReads == {"segv", "small"}

Calloc ==
  /\ phase = "ready"
  /\ calls < MaxCalls
  /\ calls' = calls + 1
  /\ Cardinality(live) < MaxLive
  /\ UNCHANGED <<hist, out>>
  /\ \E a \in CallocArgs :
       \E fill \in FillVals :
         \E r \in {calloc(St, a[1], a[2], fill)} :
             /\ SetSt(r.s)
             /\ live' = IF r.ret = NULL THEN live ELSE live \cup {r.ret}
             /\ last' = Call("calloc", NULL, a[1], a[2], r.ret, r.asked, r.refused,
                             r.nullread)
             /\ \E o \in (IF r.nullread THEN NullReads ELSE {"none"}) :
                  phase' = IF o = "segv" THEN "segv" ELSE "ready"

(* The caller fills the payload of the block it has just been handed with *)
(* a word of its choice.                                                   *)
UserWriteOf(words, maxCalls) ==
  /\ phase = "ready"
  /\ calls < maxCalls
  /\ calls' = calls + 1
  /\ last.op \in {"malloc", "realloc", "calloc"}
  /\ last.ret \in live
  /\ \E w \in words :
       SetSt(FillWords(St, last.ret, GET_SIZE(St, HDRP(last.ret)) - DSIZE, w))
  /\ last' = Call("write", last.ret, 0, 0, NULL, FALSE, FALSE, FALSE)
  /\ UNCHANGED <<phase, live, hist, out>>

Malloc == MallocOf(ReqSizes, MaxCalls, MaxLive, FALSE)
Free == FreeOf(live \cup {NULL}, MaxCalls, FALSE)
Realloc == ReallocOf(live \cup {NULL}, ReallocSizes, MaxCalls, MaxLive)
UserWrite == UserWriteOf(UserWords, MaxCalls)

NextAllocFree == MmInit \/ Malloc \/ Free \/ UserWrite

Next == MmInit \/ Malloc \/ Free \/ Realloc \/ Calloc \/ UserWrite

(* A caller of small blocks that stores a word that reads as a boundary    *)
(* tag and reallocates to the largest size: longer runs, fewer choices.    *)
SmallMalloc == MallocOf(SmallSizes, DeepCalls, DeepLive, FALSE)
SmallFree == FreeOf(live, DeepCalls, FALSE)
TagWrite == UserWriteOf({PACK(MINSIZE, 0)}, DeepCalls)
HugeRealloc == ReallocOf(live, {SIZE_MAX}, DeepCalls, DeepLive)

NextDeep == MmInit \/ SmallMalloc \/ SmallFree \/ TagWrite \/ HugeRealloc

SpecDeep == Init /\ [][NextDeep]_vars

(* A caller that only allocates and releases, with the request sizes of    *)
(* the allocate/release scenarios.                                         *)
ScenarioMalloc == MallocOf(ScenarioSizes, ScenarioCalls, ScenarioLive, TRUE)
ScenarioFree == FreeOf(live, ScenarioCalls, TRUE)

NextScenario == MmInit \/ ScenarioMalloc \/ ScenarioFree

SpecScenario == Init /\ [][NextScenario]_vars

(* The same caller, keeping no record of its calls. *)
SizesMalloc == MallocOf(ScenarioSizes, ScenarioCalls, ScenarioLive, FALSE)
SizesFree == FreeOf(live, ScenarioCalls, FALSE)

NextSizes == MmInit \/ SizesMalloc \/ SizesFree

SpecSizes == Init /\ [][NextSizes]_vars

(* How a run of mm_checkheap that reads a word outside the heap can end:  *)
(* the read kills the process, or it yields a word that makes the checker  *)
(* exit or return.                                                         *)
StrayEnds(ph) == {"segv", "exited", ph}

CheckHeapOf(maxCalls) ==
  /\ phase \in {"ready", "corrupt"}
  /\ calls < maxCalls
  /\ calls' = calls + 1
  /\ \E r \in {mm_checkheap(St)} :
       /\ out' = r.msgs
       /\ phase' \in IF r.end = "return" THEN {phase}
                     ELSE IF r.end = "exit" THEN {"exited"}
                     ELSE IF r.end = "loop" THEN {"hung"}
                     ELSE StrayEnds(phase)
  /\ last' = Call("mm_checkheap", NULL, 0, 0, NULL, FALSE, FALSE, FALSE)
  /\ UNCHANGED <<mem, mem_brk, mem_max, heap_listp, freelists, live, hist>>

Spec == Init /\ [][Next]_vars

SpecAllocFree == Init /\ [][NextAllocFree]_vars

(**************************** reading the heap ***************************)
(* The blocks a walk of the heap meets: from the first real block, by the  *)
(* stored sizes, until a header of size 0 or one that is not in the heap.  *)
Observable == phase \in {"ready", "corrupt"}

IsBlockAt(bp) ==
  /\ InHeapWord(St, HDRP(bp))
  /\ GET_SIZE(St, HDRP(bp)) >= DSIZE
  /\ bp + GET_SIZE(St, HDRP(bp)) <= mem_brk

RECURSIVE WalkFrom(_)
WalkFrom(bp) ==
  IF IsBlockAt(bp) THEN <<bp>> \o WalkFrom(bp + GET_SIZE(St, HDRP(bp))) ELSE <<>>

RECURSIVE WalkStop(_)
WalkStop(bp) ==
  IF IsBlockAt(bp) THEN WalkStop(bp + GET_SIZE(St, HDRP(bp))) ELSE bp

HeapWalk == WalkFrom(heap_listp + DSIZE)
Blocks == {HeapWalk[k] : k \in 1..Len(HeapWalk)}
BlockSize(bp) == GET_SIZE(St, HDRP(bp))
IsFree(bp) == GET_ALLOC(St, HDRP(bp)) = 0
FreeBlocks == {bp \in Blocks : IsFree(bp)}

(* The payload of a block: the bytes between its header and its footer. *)
Payload(bp) == {a \in bp..(bp + BlockSize(bp) - DSIZE - 1) : a % WSIZE = 0}
Tags == UNION {{HDRP(bp), bp + BlockSize(bp) - DSIZE} : bp \in Blocks}
          \cup {mem_brk - WSIZE, heap_listp - WSIZE, heap_listp}

(* The entries of bucket i as the code reads the list: from the head, by   *)
(* the successor links, up to the first block whose header says allocated. *)
RECURSIVE ListFrom(_, _)
ListFrom(p, fuel) ==
  IF fuel = 0 \/ ~InHeapWord(St, HDRP(p)) \/ ~InHeapWord(St, p + WSIZE) THEN <<p>>
  ELSE IF GET_ALLOC(St, HDRP(p)) # 0 THEN <<p>>
  ELSE <<p>> \o ListFrom(SUCC(St, p), fuel - 1)

(* The list of bucket i and the pointer that ends it. *)
ListAll(i) == ListFrom(freelists[i], Idx(mem_brk))
ListEntries(i) == SubSeq(ListAll(i), 1, Len(ListAll(i)) - 1)
ListEnd(i) == ListAll(i)[Len(ListAll(i))]
Buckets == 0..(NUMLIST - 1)
Occurrences(bp) ==
  Cardinality({<<i, k>> \in Buckets \X (1..Idx(mem_brk)) :
                 k <= Len(ListEntries(i)) /\ ListEntries(i)[k] = bp})

(* The smallest i with size <= 2^i, or the last bucket. *)
SizeClass(size) ==
  IF \E i \in Buckets : size <= 2 ^ i
  THEN CHOOSE i \in Buckets : size <= 2 ^ i /\ \A j \in 0..(i - 1) : size > 2 ^ j
  ELSE NUMLIST - 1

(**************************** checking the heap **************************)
(* A caller that allocates and releases small blocks and runs the checker. *)
(* It may once store a word over a boundary tag of the heap, which no      *)
(* caller is allowed to do: the checker is there to find that.             *)
StrayWords == {PACK(0, 0), PACK(MINSIZE, 1)}

StrayWrite ==
  /\ phase = "ready"
  /\ calls < CheckCalls
  /\ calls' = calls + 1
  /\ \E a \in Tags, w \in StrayWords :
       /\ GET(St, a) # w
       /\ SetSt(PUT(St, a, w))
       /\ last' = Call("stray", a, 0, 0, NULL, FALSE, FALSE, FALSE)
  /\ phase' = "corrupt"
  /\ UNCHANGED <<live, hist, out>>

CheckMalloc == MallocOf(SmallSizes, CheckCalls, CheckLive, FALSE)
CheckFree == FreeOf(live, CheckCalls, FALSE)
CheckHeap == CheckHeapOf(CheckCalls)

NextCheck == MmInit \/ CheckMalloc \/ CheckFree \/ StrayWrite \/ CheckHeap

SpecCheck == Init /\ [][NextCheck]_vars

(* The walk of mm_checkheap over blocks of sizes the word-level heap       *)
(* cannot hold: only the size of each block is kept.  Each step is one     *)
(* round of the walk: last.ptr is the list first_free named before the     *)
(* round, last.size the size of the block, last.ret the list the checker   *)
(* searches for it.  Before the walk first_free is the last list.          *)
WalkSizes == {MINSIZE, 2 * MINSIZE, CHUNKSIZE, 2 ^ (NUMLIST - 2), 2 ^ (NUMLIST - 1),
              2 ^ (NUMLIST - 1) + ALIGNMENT, 2 ^ NUMLIST}

WalkBlock ==
  /\ phase = "uninit"
  /\ calls < WalkBlocks
  /\ calls' = calls + 1
  /\ \E size \in WalkSizes :
       \E first_free \in {IF last.op = "walk" THEN last.ret ELSE NUMLIST - 1} :
           last' = Call("walk", first_free, 0, size, checked_list(size, first_free),
                        FALSE, FALSE, FALSE)
  /\ UNCHANGED <<mem, mem_brk, mem_max, heap_listp, freelists, phase, live, hist, out>>

NextWalk == WalkBlock

SpecWalk == Init /\ [][NextWalk]_vars

(* C1: every live pointer is 8-byte aligned and is an allocated block of   *)
(* the heap; the payloads of two live pointers share no byte, and no       *)
(* payload of a live pointer holds a header or a footer of any block.      *)
C1_LiveAlignedDisjoint ==
  Observable =>
    /\ \A p \in live : p % ALIGNMENT = 0 /\ p \in Blocks /\ ~IsFree(p)
    /\ \A p, q \in live : p # q => Payload(p) \cap Payload(q) = {}
    /\ \A p \in live : Payload(p) \cap Tags = {}

C1_Witness ==
  /\ phase = "ready"
  /\ Cardinality(live) = 2
  /\ last.op = "malloc" /\ last.ret \in live
  /\ \E bp \in FreeBlocks : bp < last.ret

(* C2: after every public call, no two physically adjacent blocks are both *)
(* free.                                                                   *)
C2_NoAdjacentFree ==
  Observable =>
    \A k \in 1..(Len(HeapWalk) - 1) : ~(IsFree(HeapWalk[k]) /\ IsFree(HeapWalk[k + 1]))

(* C3: between public calls, the header word of every block equals its     *)
(* footer word.                                                            *)
C3_HeaderEqualsFooter ==
  Observable =>
    \A bp \in Blocks : GET(St, HDRP(bp)) = GET(St, FTRP(St, bp))

(* C4: between public calls, every free block is exactly once on exactly   *)
(* one list, the list of its size class; every list entry is a free block  *)
(* of the heap, and every list ends at the prologue.                       *)
C4_FreeListsExact ==
  Observable =>
    /\ \A bp \in FreeBlocks :
         /\ Occurrences(bp) = 1
         /\ \E k \in 1..Len(ListEntries(SizeClass(BlockSize(bp)))) :
              ListEntries(SizeClass(BlockSize(bp)))[k] = bp
    /\ \A i \in Buckets :
         /\ \A k \in 1..Len(ListEntries(i)) : ListEntries(i)[k] \in FreeBlocks
         /\ ListEnd(i) = heap_listp

(* C5: between public calls, the heap begins with the allocated 8-byte     *)
(* prologue, ends with the allocated zero-size epilogue header at the heap *)
(* top, and the blocks in between tile it, each of a size that is a        *)
(* multiple of 8 and at least 16.                                          *)
C5_HeapWellFormed ==
  Observable =>
    /\ heap_listp = HeapBase + 2 * WSIZE
    /\ GET(St, HDRP(heap_listp)) = PACK(DSIZE, 1)
    /\ GET(St, heap_listp) = PACK(DSIZE, 1)
    /\ GET(St, mem_brk - WSIZE) = PACK(0, 1)
    /\ WalkStop(heap_listp + DSIZE) = mem_brk
    /\ \A bp \in Blocks : BlockSize(bp) % 8 = 0 /\ BlockSize(bp) >= MINSIZE

(* The allocator's state after a step. *)
StNext == [mem |-> mem', brk |-> mem_brk', max |-> mem_max', hlp |-> heap_listp',
           fl |-> freelists']

(* C6: a malloc, or a realloc of a live block, during which the provider   *)
(* refuses to grow the heap returns the null pointer and changes nothing:  *)
(* not a word of the heap, not a list head, not the heap top; and malloc   *)
(* returns the null pointer only when the provider has refused.            *)
C6_RefusalChangesNothing ==
  [][/\ (last'.op \in {"malloc", "realloc"} /\ last'.refused)
          => (last'.ret = NULL /\ StNext = St /\ live' = live)
     /\ (last'.op = "malloc" /\ last'.ret = NULL) => last'.refused]_vars

C6_Witness ==
  /\ last.op = "realloc" /\ last.ptr # NULL /\ last.refused /\ last.ret = NULL
  /\ last.ptr \in live
  /\ FreeBlocks # {}

(* C7: a successful malloc(n) hands out a block whose payload has at       *)
(* least n bytes (the block size being computed without wrapping), and a   *)
(* request larger than the provider's whole capacity fails.                *)
C7_PayloadHoldsRequest ==
  (Observable /\ last.op = "malloc")
    => /\ last.ret # NULL => BlockSize(last.ret) - DSIZE >= last.size
       /\ last.size > mem_max - HeapBase => last.ret = NULL

(* C8: a calloc during which the provider refuses to grow the heap returns *)
(* the null pointer without reading or writing through it, and changes     *)
(* nothing.                                                                *)
C8_CallocRefusalIsClean ==
  (last.op = "calloc" /\ last.refused)
    => (last.ret = NULL /\ ~last.nullread /\ phase = "ready")

(* C9: after a successful calloc(nmemb, size) the payload of the result    *)
(* has at least nmemb * size bytes (the product as calloc computes it) and *)
(* every word of the payload is zero.                                      *)
C9_CallocPayloadZero ==
  (Observable /\ last.op = "calloc" /\ last.ret # NULL)
    => /\ BlockSize(last.ret) - DSIZE >= (last.nmemb * last.size) % SIZE_MOD
       /\ \A a \in Payload(last.ret) : GET(St, a) = 0

(* C10, as claimed: realloc(p, 0) does what free(p) does and returns the   *)
(* null pointer; realloc(NULL, n) does what malloc(n) does and returns     *)
(* what it returns, for every n.                                           *)
ReallocNullIsMalloc(n) ==
  \E fill \in FillVals :
    /\ StNext = malloc(St, n, fill).s
    /\ last'.ret = malloc(St, n, fill).ret

C10_ReallocEquivalences ==
  [][last'.op = "realloc" =>
       /\ last'.size = 0 => (StNext = free(St, last'.ptr) /\ last'.ret = NULL)
       /\ last'.ptr = NULL => ReallocNullIsMalloc(last'.size)]_vars

(* C10, amended: realloc(p, 0) does what free(p) does and returns the null *)
(* pointer; realloc(NULL, n) does what malloc(n) does and returns what it  *)
(* returns, for every n > 0.                                               *)
C10_ReallocEquivalencesNonzero ==
  [][last'.op = "realloc" =>
       /\ last'.size = 0 => (StNext = free(St, last'.ptr) /\ last'.ret = NULL)
       /\ (last'.ptr = NULL /\ last'.size > 0)
            => ReallocNullIsMalloc(last'.size)]_vars

C10_Witness ==
  /\ last.op = "realloc" /\ last.size = 0 /\ last.ptr # NULL /\ last.ret = NULL
  /\ live # {}
  /\ Cardinality(FreeBlocks) = 2

(* The words of the payload of the block bp in the heap s, by word index. *)
PayloadWords(s, bp) == (GET_SIZE(s, HDRP(bp)) - DSIZE) \div WSIZE

(* C11: realloc(p, size) with p non-null and size > 0 that succeeds        *)
(* returns a new block, allocated, whose payload holds the first           *)
(* min(old payload size, size) bytes of the old payload and, behind them,  *)
(* exactly what malloc(size) left there: no byte from outside the old      *)
(* payload has been copied; and the old block has been released.           *)
C11_ReallocCopiesPayload ==
  [][(/\ last'.op = "realloc" /\ last'.ptr # NULL /\ last'.size > 0
      /\ last'.ret # NULL /\ phase' = "ready")
     => \E fill \in FillVals :
          LET old == last'.ptr
              new == last'.ret
              n == MIN(GET_SIZE(St, HDRP(old)) - DSIZE, last'.size)
              m == malloc(St, last'.size, fill).s
          IN  /\ new # old
              /\ GET_ALLOC(StNext, HDRP(new)) = 1
              /\ old \notin live'
              /\ \A k \in 0..(PayloadWords(StNext, new) - 1) :
                   GET(StNext, new + k * WSIZE) =
                     IF k * WSIZE < n THEN GET(St, old + k * WSIZE)
                     ELSE GET(m, new + k * WSIZE)]_vars

(* The calls made so far are mm_init and then the calls ops, in order. *)
HistOps(h) == [k \in 1..Len(h) |-> <<h[k].op, h[k].size>>]

(* C12: in the trace mm_init(); a = malloc(100); b = malloc(200); free(a);  *)
(* c = malloc(50), c equals a and the heap does not grow during malloc(50). *)
C12_ScenarioReuse ==
  [][(/\ HistOps(hist') = <<<<"mm_init", 0>>, <<"malloc", 100>>, <<"malloc", 200>>,
                            <<"free", 0>>, <<"malloc", 50>>>>
      /\ hist'[1].ret = 0
      /\ hist'[2].ret # NULL /\ hist'[3].ret # NULL
      /\ hist'[4].ptr = hist'[2].ret)
     => (hist'[5].ret = hist'[2].ret /\ mem_brk' = mem_brk)]_vars

C12_Witness ==
  /\ HistOps(hist) = <<<<"mm_init", 0>>, <<"malloc", 100>>, <<"malloc", 200>>,
                       <<"free", 0>>, <<"malloc", 50>>>>
  /\ hist[2].ret # NULL /\ hist[3].ret # NULL
  /\ hist[4].ptr = hist[2].ret
  /\ hist[5].ret \in live

(* The calls so far are those of scenario B up to the two releases: two    *)
(* malloc(16) that returned physically adjacent blocks x and y (y begins   *)
(* where the 16-byte payload of x and its footer end), both then released  *)
(* in address order.                                                       *)
ScenarioB(h) ==
  /\ HistOps(h) = <<<<"mm_init", 0>>, <<"malloc", 16>>, <<"malloc", 16>>,
                    <<"free", 0>>, <<"free", 0>>>>
  /\ h[1].ret = 0
  /\ h[2].ret # NULL
  /\ h[3].ret = h[2].ret + 16 + DSIZE
  /\ h[4].ptr = h[2].ret
  /\ h[5].ptr = h[3].ret

(* The free block bp holds the blocks x and y whole. *)
HoldsBoth(bp, x, y) ==
  /\ bp \in FreeBlocks
  /\ bp <= x
  /\ y + 16 + WSIZE <= bp + BlockSize(bp)

(* C13: after scenario B, the two released blocks are part of one single   *)
(* free block, and a following malloc(32) returns a block inside that free *)
(* block without the heap growing.                                         *)
C13_ScenarioMerge ==
  [][(ScenarioB(hist) /\ Len(hist') = 6 /\ hist'[6].op = "malloc" /\ hist'[6].size = 32)
     => \E bp \in FreeBlocks :
          /\ HoldsBoth(bp, hist[2].ret, hist[3].ret)
          /\ hist'[6].ret >= bp
          /\ hist'[6].ret + 32 + WSIZE <= bp + BlockSize(bp)
          /\ mem_brk' = mem_brk]_vars

C13_Witness ==
  /\ Len(hist) = 6
  /\ ScenarioB(SubSeq(hist, 1, 5))
  /\ hist[6].op = "malloc" /\ hist[6].size = 32 /\ hist[6].ret \in live

(* The calls so far are mm_init and then complete cycles p = malloc(s);   *)
(* free(p), at least one, all with the same s.                             *)
Cycles(h, s) ==
  /\ Len(h) >= 3 /\ Len(h) % 2 = 1
  /\ h[1].op = "mm_init" /\ h[1].ret = 0
  /\ \A j \in 1..((Len(h) - 1) \div 2) :
       /\ h[2 * j].op = "malloc" /\ h[2 * j].size = s /\ h[2 * j].ret # NULL
       /\ h[2 * j + 1].op = "free" /\ h[2 * j + 1].ptr = h[2 * j].ret

(* C16: in repeated cycles p = malloc(s); free(p) with the same s on a     *)
(* freshly initialized heap, the heap top moves at most during the first   *)
(* cycle: the malloc(s) of every later cycle succeeds and leaves the heap  *)
(* top where it was, and so does its free.                                 *)
C16_CyclesDoNotGrow ==
  [][\A s \in ScenarioSizes :
       /\ (Cycles(hist, s) /\ Len(hist') = Len(hist) + 1
             /\ last'.op = "malloc" /\ last'.size = s)
            => (last'.ret # NULL /\ mem_brk' = mem_brk)
       /\ (Cycles(hist', s) /\ Len(hist') = Len(hist) + 1 /\ Len(hist') >= 5)
            => mem_brk' = mem_brk]_vars

C16_Witness ==
  /\ Cycles(hist, 300)
  /\ Len(hist) = 5
  /\ hist[2].asked /\ ~hist[4].asked

(* Block sizes a request may require: those of the caller's requests, and  *)
(* the largest size of a bucket and the smallest of the next.              *)
RequiredSizes ==
  {AdjustedSize(n) : n \in ScenarioSizes}
    \cup {2 ^ i : i \in 4..9} \cup {2 ^ i + ALIGNMENT : i \in 4..9}

(* The entries of bucket i, each with its bucket and its size. *)
Tagged(i, entries) ==
  [k \in 1..Len(entries) |-> [i |-> i, bp |-> entries[k], size |-> BlockSize(entries[k])]]

(* The free-list entries from bucket i on, bucket by bucket in ascending   *)
(* order, head to tail within each.                                        *)
RECURSIVE EntriesFrom(_)
EntriesFrom(i) ==
  IF i >= NUMLIST THEN <<>> ELSE Tagged(i, ListEntries(i)) \o EntriesFrom(i + 1)

(* The first of the entries, from the bucket of required on, that is large *)
(* enough; NULL when there is none.                                        *)
FirstOf(fitting) == IF fitting = <<>> THEN NULL ELSE fitting[1].bp

FirstFit(entries, required, class) ==
  FirstOf(SelectSeq(entries, LAMBDA e : e.i >= class /\ e.size >= required))

(* find_fit, which found the block found for the size required, agrees     *)
(* with the scan of entries and with the sizes of the heap's free blocks.  *)
Agrees(found, required, entries, freesizes) ==
  /\ found = FirstFit(entries, required, SizeClass(required))
  /\ found = NULL <=> \A size \in freesizes : size < required

FindFitAgrees(s, entries, freesizes) ==
  \A required \in RequiredSizes :
    Agrees(find_fit(s, required), required, entries, freesizes)

(* C17: find_fit(required) returns the first block of size at least        *)
(* required in the scan order that starts at the bucket of required and    *)
(* goes through the larger buckets in ascending order, head to tail; it    *)
(* fails only when no free block of the heap has size at least required,   *)
(* and malloc asks the provider for memory only when no free block fits.   *)
C17_FirstFitOrder ==
  /\ [](phase = "ready" =>
          FindFitAgrees(St, EntriesFrom(0), {BlockSize(bp) : bp \in FreeBlocks}))
  /\ [][(last'.op = "malloc" /\ last'.asked)
          => \A bp \in FreeBlocks : BlockSize(bp) < AdjustedSize(last'.size)]_vars

C17_Witness ==
  /\ phase = "ready"
  /\ \E required \in RequiredSizes :
       /\ find_fit(St, required) # NULL
       /\ find_fit(St, required) # freelists[SizeClass(required)]
       /\ freelists[SizeClass(required)] \in FreeBlocks

(* max(round_up_to_8(n + 8), 16), in unbounded arithmetic *)
Required(n) == MAX(((n + DSIZE + 7) \div 8) * 8, MINSIZE)

(* C18: every successful malloc(n), n = 0 included, yields an allocated    *)
(* block whose stored size s satisfies Required(n) <= s < Required(n) + 16;*)
(* when it was taken from a free block that exceeds Required(n) by 16 or   *)
(* more, the block has exactly Required(n) bytes and is followed by a free *)
(* block holding the whole leftover, otherwise the whole block is taken.   *)
C18_BlockSizeWithinSlack ==
  [][(last'.op = "malloc" /\ last'.ret # NULL)
     => LET bp == last'.ret
            s == GET_SIZE(StNext, HDRP(bp))
            c == GET_SIZE(St, HDRP(bp))
        IN  /\ GET_ALLOC(StNext, HDRP(bp)) = 1
            /\ Required(last'.size) <= s
            /\ s < Required(last'.size) + MINSIZE
            /\ ~last'.asked =>
                 IF c - Required(last'.size) >= MINSIZE
                 THEN /\ s = Required(last'.size)
                      /\ GET(StNext, HDRP(bp + s)) = PACK(c - s, 0)
                 ELSE s = c]_vars

(* C19: malloc, calloc, free(q) and realloc(q, n) leave unchanged every    *)
(* payload byte of every block that is live before and after the call and  *)
(* is neither the call's argument nor its result.                          *)
C19_OtherPayloadsUntouched ==
  [][last'.op \in {"malloc", "calloc", "free", "realloc"}
     => \A q \in (live \cap live') \ {last'.ptr, last'.ret} :
          \A a \in Payload(q) : GET(StNext, a) = GET(St, a)]_vars

(* C14: every run of the checker that prints a diagnostic prints exactly   *)
(* one and ends in exit: the checker never goes on after a diagnostic.     *)
C14_DiagnosticThenExit ==
  [][(last'.op = "mm_checkheap" /\ out' # <<>>)
     => (Len(out') = 1 /\ phase' = "exited")]_vars

(* C15: on every heap in which one of the structural invariants is broken, *)
(* a run of the checker prints a diagnostic.                               *)
C15_CheckerFindsBrokenHeap ==
  [][(/\ last'.op = "mm_checkheap"
      /\ ~(/\ C2_NoAdjacentFree
           /\ C3_HeaderEqualsFooter
           /\ C4_FreeListsExact
           /\ C5_HeapWellFormed))
     => out' # <<>>]_vars

(* C20: for every block the walk of the checker meets, the list the        *)
(* checker searches is the list freelist_insert puts a block of that size  *)
(* on, blocks larger than 2^(NUMLIST-1) included.                          *)
C20_CheckerSearchesInsertList ==
  last.op = "walk" => last.ret = ListIndex(last.size)

====
